---- MODULE Spec2Model ----
(***************************************************************************)
(* Model of the Bananagrams solver (src/backend/solver/solver.h) and of    *)
(* the request handler that drives it (src/backend/solver/main.cpp).       *)
(*                                                                         *)
(* Letters are wchar_t code points (97 = 'a').  A std::wstring is a        *)
(* sequence of code points; a grid cell is a wstring that is either empty  *)
(* (<<>>, L"") or holds one letter (<<c>>).  The grid is indexed           *)
(* grid[row][col] with rows and columns 0 .. max_grid_size-1, as in the    *)
(* code.                                                                   *)
(***************************************************************************)
EXTENDS Integers, Sequences, FiniteSets, Bags, TLC

(***************************************************************************)
(* Bounds of the model.                                                    *)
(***************************************************************************)
\* longest hand drawn from Letters that a request carries
MaxHandLen == 4
\* largest start coordinate at the low edge of the grid tried in SpecInsert
MaxCoord == 0
\* number of removeWordFromWordlist calls made in SpecLexicon
MaxRemovals == 3
\* number of insertWord calls made in SpecInsert
MaxInserts == 2

(***************************************************************************)
(* Program constants.                                                      *)
(***************************************************************************)
MaxTiles == 144
MinGridSize == 10
Space == 32
CaseOffset == 32

Letters == {97, 98, 99, 100}

(***************************************************************************)
(* std::wstring helpers.                                                   *)
(***************************************************************************)
\* std::count(s.begin(), s.end(), c)
Count(s, c) == Cardinality({i \in 1..Len(s) : s[i] = c})

\* the elements of a sequence
Range(s) == {s[i] : i \in 1..Len(s)}

\* (int) s.find(c): 0-based index of the first occurrence; std::wstring::npos
\* converted to int is -1.
Find(s, c) ==
    IF \E i \in 1..Len(s) : s[i] = c
    THEN (CHOOSE i \in 1..Len(s) : s[i] = c /\ \A j \in 1..(i-1) : s[j] # c) - 1
    ELSE 0 - 1

\* s.erase(pos, 1) with pos 0-based
EraseAt(s, pos) == SubSeq(s, 1, pos) \o SubSeq(s, pos + 2, Len(s))

\* std::remove + erase: every element equal to w is deleted
\* (variant: the first element equal to w only)
RemoveFirst(s, w) == IF Find(s, w) = 0 - 1 THEN s ELSE EraseAt(s, Find(s, w))
RemoveAll(s, w) == SelectSeq(s, LAMBDA e : e # w)

\* Only({e : x \in {v}}) is e with the local variable x initialised to v:
\* the initialiser is evaluated once
Only(S) == CHOOSE r \in S : TRUE

\* utils::sort, std::sort on the characters: position i of the result holds
\* the character c with fewer than i smaller and at least i not greater ones
Sort(s) ==
    [i \in 1..Len(s) |->
        CHOOSE c \in {s[j] : j \in 1..Len(s)} :
            /\ Cardinality({j \in 1..Len(s) : s[j] < c}) < i
            /\ i <= Cardinality({j \in 1..Len(s) : s[j] <= c})]

\* std::tolower / std::toupper on one code point (ASCII range)
ToLowerChar(c) == IF c \in 65..90 THEN c + CaseOffset ELSE c
ToUpperChar(c) == IF c \in 97..122 THEN c - CaseOffset ELSE c

\* utils::tolower / utils::toupper
ToLower(s) == [i \in 1..Len(s) |-> ToLowerChar(s[i])]
ToUpper(s) == [i \in 1..Len(s) |-> ToUpperChar(s[i])]

\* std::codecvt_utf8<wchar_t>: the bytes of one code point
Utf8(c) ==
    IF c < 128 THEN <<c>>
    ELSE IF c < 2048 THEN <<192 + (c \div 64), 128 + (c % 64)>>
    ELSE IF c < 65536
    THEN <<224 + (c \div 4096), 128 + ((c \div 64) % 64), 128 + (c % 64)>>
    ELSE <<240 + (c \div 262144), 128 + ((c \div 4096) % 64),
           128 + ((c \div 64) % 64), 128 + (c % 64)>>

\* utils::wstringToString: converter.to_bytes(wstr)
RECURSIVE wstringToString(_)
wstringToString(wstr) ==
    IF wstr = <<>> THEN <<>> ELSE Utf8(Head(wstr)) \o wstringToString(Tail(wstr))

\* std::iswspace for the characters a word list line can end with
IsSpace(c) == c \in {9, 10, 13, Space}

(***************************************************************************)
(* WordUtil                                                                *)
(***************************************************************************)
\* while (!line.empty() && iswspace(line.back())) line.pop_back();
RECURSIVE StripTrailing(_)
StripTrailing(line) ==
    IF line # <<>> /\ IsSpace(line[Len(line)])
    THEN StripTrailing(SubSeq(line, 1, Len(line) - 1))
    ELSE line

\* the lines that become words: stripped, blank lines skipped
RECURSIVE LoadWords(_)
LoadWords(lines) ==
    IF lines = <<>> THEN <<>>
    ELSE LET line == StripTrailing(Head(lines)) IN
         IF line = <<>> THEN LoadWords(Tail(lines))
         ELSE <<line>> \o LoadWords(Tail(lines))

\* anagrams[utils::sort(line)].emplace_back(line) for every loaded word
BuildAnagrams(ws) ==
    [k \in {Sort(ws[i]) : i \in 1..Len(ws)} |->
        SelectSeq(ws, LAMBDA w : Sort(w) = k)]

\* longest_word_length starts at 1 and is raised by every longer line
LongestWordLength(ws) ==
    IF ws = <<>> THEN 1
    ELSE LET m == CHOOSE n \in {Len(ws[i]) : i \in 1..Len(ws)} :
                    \A j \in 1..Len(ws) : Len(ws[j]) <= n
         IN IF m > 1 THEN m ELSE 1

\* the per-word test of getWordWithLength: no letter of the word occurs more
\* often in the word than in the hand
\* (variants: the hand must hold more of each letter than the word needs;
\* one letter that the hand holds often enough suffices)
CanMakeWordStrict(word, hand) ==
    \A i \in 1..Len(word) : ~ (Count(word, word[i]) >= Count(hand, word[i]))
CanMakeWordAny(word, hand) ==
    \E i \in 1..Len(word) : ~ (Count(word, word[i]) > Count(hand, word[i]))
CanMakeWord(word, hand) ==
    \A i \in 1..Len(word) : ~ (Count(word, word[i]) > Count(hand, word[i]))

\* first word of the group with the wanted length that the hand can make
RECURSIVE FirstInGroup(_, _, _)
FirstInGroup(word_list, hand, length) ==
    IF word_list = <<>> THEN <<>>
    ELSE IF Len(Head(word_list)) = length /\ CanMakeWord(Head(word_list), hand)
         THEN Head(word_list)
         ELSE FirstInGroup(Tail(word_list), hand, length)

\* WordUtil::getWordWithLength: the groups are visited in the iteration order
\* of the unordered_map (order), the words of a group in insertion order.
RECURSIVE GetWordFrom(_, _, _, _)
GetWordFrom(anagrams_, order, hand, length) ==
    IF order = <<>> THEN <<>>
    ELSE LET word == FirstInGroup(anagrams_[Head(order)], hand, length) IN
         IF word # <<>> THEN word
         ELSE GetWordFrom(anagrams_, Tail(order), hand, length)

getWordWithLength(anagrams_, order, hand, length) ==
    GetWordFrom(anagrams_, order, hand, length)

(***************************************************************************)
(* Hand                                                                    *)
(***************************************************************************)
\* Hand::removeWordFromTiles
\* (variant: the hand is left as it is)
removeWordFromTilesNever(tiles_, word) == tiles_
RECURSIVE removeWordFromTiles(_, _)
removeWordFromTiles(tiles_, word) ==
    IF word = <<>> THEN tiles_
    ELSE LET pos == Find(tiles_, Head(word)) IN
         removeWordFromTiles(IF pos # 0 - 1 THEN EraseAt(tiles_, pos) ELSE tiles_,
                             Tail(word))

(***************************************************************************)
(* Board                                                                   *)
(***************************************************************************)
\* max_grid_size copies of std::vector<std::wstring> row(max_grid_size, L"")
EmptyGrid(n) ==
    LET row == [c \in 0..(n-1) |-> <<>>] IN
    [r \in 0..(n-1) |-> row]

\* max_grid_size = hand.tiles.length() * 2, at least 10
GridSizeFor(tiles_) ==
    IF Len(tiles_) * 2 < MinGridSize THEN MinGridSize ELSE Len(tiles_) * 2

\* Board::getTiles: the row-major double loop appends every non-empty cell,
\* so letter i of the result is the cell at the i-th occupied index k
\* (row k / n, column k % n); a cell holds one character
getTiles(g, n) ==
    Only({ [i \in 1..Cardinality(occupied) |->
               LET k == CHOOSE c \in occupied :
                            Cardinality({j \in occupied : j < c}) = i - 1
               IN g[k \div n][k % n][1]] :
           occupied \in { {k \in 0..(n * n - 1) : g[k \div n][k % n] # <<>>} } })

\* if (!new_grid[y][x_index].empty()) return false;
\* (variant: an occupied target cell is overwritten)
TargetTakenNever(new_grid, row, col) == FALSE
TargetTaken(new_grid, row, col) == new_grid[row][col] # <<>>

\* the bounds checks that open the two loops of insertWord
\* (variant: the horizontal check without the one-row margin)
OffGridHorizontalNoMargin(n, x_index, y) ==
    x_index < 0 \/ x_index >= n \/ y < 0 \/ y >= n
OffGridHorizontal(n, x_index, y) ==
    x_index < 0 \/ x_index >= n \/ y < 1 \/ y >= n - 1
OffGridVertical(n, x, y_index) ==
    y_index < 1 \/ y_index >= n - 1 \/ x < 1 \/ x >= n - 1

\* The horizontal loop of insertWord from index i (1-based) of the word on.
\* The result carries the scratch copy new_grid as far as it was written.
RECURSIVE InsertHorizontal(_, _, _, _, _, _, _)
InsertHorizontal(new_grid, n, word, x, y, seed_xy, i) ==
    IF i > Len(word) THEN [ok |-> TRUE, new_grid |-> new_grid]
    ELSE
      LET x_index == x + i - 1 IN
      IF OffGridHorizontal(n, x_index, y)
      THEN [ok |-> FALSE, new_grid |-> new_grid]
      ELSE IF x_index = seed_xy[1] /\ y = seed_xy[2]
      THEN IF x_index + 1 < n /\ new_grid[y][x_index + 1] # <<>>
           THEN [ok |-> FALSE, new_grid |-> new_grid]
           ELSE InsertHorizontal(new_grid, n, word, x, y, seed_xy, i + 1)
      ELSE IF TargetTaken(new_grid, y, x_index)
      THEN [ok |-> FALSE, new_grid |-> new_grid]
      ELSE
        LET written == [new_grid EXCEPT ![y][x_index] = <<word[i]>>] IN
        IF written[y - 1][x_index] # <<>> \/ written[y + 1][x_index] # <<>>
        THEN [ok |-> FALSE, new_grid |-> written]
        ELSE InsertHorizontal(written, n, word, x, y, seed_xy, i + 1)

\* The vertical loop of insertWord.
RECURSIVE InsertVertical(_, _, _, _, _, _, _)
InsertVertical(new_grid, n, word, x, y, seed_xy, i) ==
    IF i > Len(word) THEN [ok |-> TRUE, new_grid |-> new_grid]
    ELSE
      LET y_index == y + i - 1 IN
      IF OffGridVertical(n, x, y_index)
      THEN [ok |-> FALSE, new_grid |-> new_grid]
      ELSE IF x = seed_xy[1] /\ y_index = seed_xy[2]
      THEN IF y_index + 1 < n /\ new_grid[y_index + 1][x] # <<>>
           THEN [ok |-> FALSE, new_grid |-> new_grid]
           ELSE InsertVertical(new_grid, n, word, x, y, seed_xy, i + 1)
      ELSE IF TargetTaken(new_grid, y_index, x)
      THEN [ok |-> FALSE, new_grid |-> new_grid]
      ELSE
        LET written == [new_grid EXCEPT ![y_index][x] = <<word[i]>>] IN
        IF written[y - 1][x] # <<>>
           \/ (y + Len(word) + 1 < n /\ written[y + Len(word) + 1][x] # <<>>)
        THEN [ok |-> FALSE, new_grid |-> written]
        ELSE IF written[y_index][x - 1] # <<>>
        THEN [ok |-> FALSE, new_grid |-> written]
        ELSE IF written[y_index][x + 1] # <<>> /\ written[y_index][x - 1] = <<>>
                /\ (x + 2 < n /\ written[y_index][x + 2] = <<>>)
        THEN [ok |-> FALSE, new_grid |-> written]
        ELSE InsertVertical(written, n, word, x, y, seed_xy, i + 1)

\* The cells <<row, col>> of new_grid that insertWord reads or writes, in the
\* order of the code up to the first cell outside the grid (a vector indexed
\* out of range) or the return.
InGrid(n, rc) == rc[1] \in 0..(n - 1) /\ rc[2] \in 0..(n - 1)

Touch(n, rc, after) == IF InGrid(n, rc) THEN {rc} \cup after ELSE {rc}

RECURSIVE TouchedHorizontal(_, _, _, _, _, _, _)
TouchedHorizontal(new_grid, n, word, x, y, seed_xy, i) ==
    IF i > Len(word) THEN {}
    ELSE
      LET x_index == x + i - 1 IN
      IF OffGridHorizontal(n, x_index, y) THEN {}
      ELSE IF x_index = seed_xy[1] /\ y = seed_xy[2]
      THEN IF x_index + 1 < n
           THEN Touch(n, <<y, x_index + 1>>,
                  IF new_grid[y][x_index + 1] # <<>> THEN {}
                  ELSE TouchedHorizontal(new_grid, n, word, x, y, seed_xy, i + 1))
           ELSE TouchedHorizontal(new_grid, n, word, x, y, seed_xy, i + 1)
      ELSE
        Touch(n, <<y, x_index>>,
          IF TargetTaken(new_grid, y, x_index) THEN {}
          ELSE
            LET written == [new_grid EXCEPT ![y][x_index] = <<word[i]>>] IN
            Touch(n, <<y - 1, x_index>>,
              IF written[y - 1][x_index] # <<>> THEN {}
              ELSE Touch(n, <<y + 1, x_index>>,
                     IF written[y + 1][x_index] # <<>> THEN {}
                     ELSE TouchedHorizontal(written, n, word, x, y, seed_xy, i + 1))))

RECURSIVE TouchedVertical(_, _, _, _, _, _, _)
TouchedVertical(new_grid, n, word, x, y, seed_xy, i) ==
    IF i > Len(word) THEN {}
    ELSE
      LET y_index == y + i - 1 IN
      IF OffGridVertical(n, x, y_index) THEN {}
      ELSE IF x = seed_xy[1] /\ y_index = seed_xy[2]
      THEN IF y_index + 1 < n
           THEN Touch(n, <<y_index + 1, x>>,
                  IF new_grid[y_index + 1][x] # <<>> THEN {}
                  ELSE TouchedVertical(new_grid, n, word, x, y, seed_xy, i + 1))
           ELSE TouchedVertical(new_grid, n, word, x, y, seed_xy, i + 1)
      ELSE
        Touch(n, <<y_index, x>>,
          IF TargetTaken(new_grid, y_index, x) THEN {}
          ELSE
            LET written == [new_grid EXCEPT ![y_index][x] = <<word[i]>>]
                \* line 263 on: the left neighbour, the right neighbour, the
                \* left neighbour again, the cell two columns to the right
                sides ==
                  Touch(n, <<y_index, x - 1>>,
                    IF written[y_index][x - 1] # <<>> THEN {}
                    ELSE Touch(n, <<y_index, x + 1>>,
                           IF written[y_index][x + 1] = <<>>
                           THEN TouchedVertical(written, n, word, x, y, seed_xy, i + 1)
                           ELSE IF x + 2 < n
                           THEN Touch(n, <<y_index, x + 2>>,
                                  IF written[y_index][x + 2] = <<>> THEN {}
                                  ELSE TouchedVertical(written, n, word, x, y,
                                                       seed_xy, i + 1))
                           ELSE TouchedVertical(written, n, word, x, y, seed_xy,
                                                i + 1)))
            IN
            Touch(n, <<y - 1, x>>,
              IF written[y - 1][x] # <<>> THEN {}
              ELSE IF y + Len(word) + 1 < n
              THEN Touch(n, <<y + Len(word) + 1, x>>,
                     IF written[y + Len(word) + 1][x] # <<>> THEN {} ELSE sides)
              ELSE sides))

\* the cells one insertWord call reads or writes
Touched(g, n, word, x, y, is_horizontal, seed_xy) ==
    IF is_horizontal
    THEN TouchedHorizontal(g, n, word, x, y, seed_xy, 1)
    ELSE TouchedVertical(g, n, word, x, y, seed_xy, 1)

\* the two loops of insertWord run on the scratch copy new_grid = grid
InsertScratch(g, n, word, x, y, is_horizontal, seed_xy) ==
    IF is_horizontal
    THEN InsertHorizontal(g, n, word, x, y, seed_xy, 1)
    ELSE InsertVertical(g, n, word, x, y, seed_xy, 1)

\* what insertWord leaves in grid: the scratch copy on success (grid =
\* new_grid), the untouched grid on every early return
\* (variant: the scratch copy is committed whatever the outcome)
CommitAlways(g, scratch) == scratch.new_grid
Commit(g, scratch) == IF scratch.ok THEN scratch.new_grid ELSE g

\* Board::insertWord
insertWord(g, n, word, x, y, is_horizontal, seed_xy) ==
    Only({ [ok |-> scratch.ok, grid |-> Commit(g, scratch)] :
           scratch \in {InsertScratch(g, n, word, x, y, is_horizontal, seed_xy)} })

\* Board::removeWordFromWordlist on the Lexicon lex = [words, anagrams,
\* removed_words].  Callers pass words taken from the anagram index, so the
\* group anagrams[utils::sort(word)] exists.
\* (variant: the word stays in its anagram group)
removeWordFromWordlistWordsOnly(lex, dup, word) ==
    IF dup THEN lex
    ELSE [words         |-> RemoveAll(lex.words, word),
          anagrams      |-> lex.anagrams,
          removed_words |-> Append(lex.removed_words, word)]
\* (variant: the undo log keeps the last removed word only)
removeWordFromWordlistLast(lex, dup, word) ==
    IF dup THEN lex
    ELSE [words         |-> RemoveAll(lex.words, word),
          anagrams      |-> [lex.anagrams EXCEPT ![Sort(word)] = RemoveAll(@, word)],
          removed_words |-> <<word>>]
removeWordFromWordlist(lex, dup, word) ==
    IF dup THEN lex
    ELSE [words         |-> RemoveAll(lex.words, word),
          anagrams      |-> [lex.anagrams EXCEPT ![Sort(word)] = RemoveAll(@, word)],
          removed_words |-> Append(lex.removed_words, word)]

\* the loop of Board::reset that restores removed_words[i..] to the Lexicon
\* (variant: the words go back to the word list only)
RestoreWordsOnly(ws, ana, removed) == [words |-> ws \o removed, anagrams |-> ana]
RECURSIVE RestoreFrom(_, _, _)
RestoreFrom(ws, ana, removed) ==
    IF removed = <<>> THEN [words |-> ws, anagrams |-> ana]
    ELSE LET word == Head(removed) IN
         RestoreFrom(Append(ws, word),
                     [ana EXCEPT ![Sort(word)] = Append(@, word)],
                     Tail(removed))

\* Board::reset: new size, cleared grid, Lexicon restored, undo log cleared
reset(tiles_, lex) ==
    LET n == GridSizeFor(tiles_)
        restored == RestoreFrom(lex.words, lex.anagrams, lex.removed_words)
    IN [max_grid_size |-> n,
        grid          |-> EmptyGrid(n),
        lex           |-> [words         |-> restored.words,
                           anagrams      |-> restored.anagrams,
                           removed_words |-> <<>>]]

\* start coordinate of the placement that puts word's first occurrence of
\* seed on the cell: row - (int)word.find(seed) and col - (int)word.find(seed)
\* (variant: the start lies two cells further on)
StartForShifted(at, word, seed) == at + 2 - Find(word, seed)
StartFor(at, word, seed) == at - Find(word, seed)

\* the two tries of findSpotForWord at cell k of the row-major double loop
\* (row k / n, column k % n): nothing at a cell that does not hold seed, else
\* the vertical placement and, when it fails, the horizontal one on the grid
\* the vertical call left.
TryCell(g, n, word, seed, k) ==
    LET row == k \div n
        col == k % n
    IN
    IF g[row][col] = <<>> \/ seed # g[row][col][1]
    THEN [ok |-> FALSE, grid |-> g]
    ELSE
      Only({ IF v.ok THEN v
             ELSE insertWord(v.grid, n, word, StartFor(col, word, seed), row, TRUE,
                             <<col, row>>) :
             v \in {insertWord(g, n, word, col, StartFor(row, word, seed), FALSE,
                               <<col, row>>)} })

\* the double loop over the cells lo..hi in row-major order, each cell tried on
\* the grid the cells before it left; it stops at the first try that succeeds
RECURSIVE ScanCells(_, _, _, _, _, _)
ScanCells(g, n, word, seed, lo, hi) ==
    IF lo = hi THEN TryCell(g, n, word, seed, lo)
    ELSE
      Only({ IF first.ok THEN first
             ELSE ScanCells(first.grid, n, word, seed, ((lo + hi) \div 2) + 1, hi) :
             first \in {ScanCells(g, n, word, seed, lo, (lo + hi) \div 2)} })

\* Board::findSpotForWord: the double loop returns true at the first cell
\* where a try succeeds, false when no cell has one
findSpotForWord(g, n, lex, dup, word, seed) ==
    IF seed = Space THEN [ok |-> FALSE, grid |-> g, lex |-> lex]
    ELSE IF ~dup /\ ~(\E i \in 1..Len(lex.words) : lex.words[i] = word)
    THEN [ok |-> FALSE, grid |-> g, lex |-> lex]
    ELSE
      Only({ [ok   |-> scan.ok,
              grid |-> scan.grid,
              lex  |-> IF scan.ok THEN removeWordFromWordlist(lex, dup, word)
                       ELSE lex] :
             scan \in {ScanCells(g, n, word, seed, 0, n * n - 1)} })

\* column of the first letter of the centred first word:
\* max_grid_size / 2 - word.length() / 2
\* (variant: the word ends at the right edge)
FirstWordXRight(n, word) == n - (Len(word) \div 2)
FirstWordX(n, word) == (n \div 2) - (Len(word) \div 2)

\* Board::placeFirstWord
placeFirstWord(g, n, tiles_, lex, order, dup, length) ==
    Only({ IF word = <<>> THEN [ok |-> FALSE, grid |-> g, tiles |-> tiles_, lex |-> lex]
           ELSE
             Only({ IF ~success.ok
                    THEN [ok |-> FALSE, grid |-> success.grid, tiles |-> tiles_,
                          lex |-> lex]
                    ELSE [ok    |-> TRUE,
                          grid  |-> success.grid,
                          tiles |-> removeWordFromTiles(tiles_, word),
                          lex   |-> removeWordFromWordlist(lex, dup, word)] :
                    success \in {insertWord(g, n, word, FirstWordX(n, word), n \div 2,
                                            TRUE, <<0 - 1, 0 - 1>>)} }) :
           word \in {getWordWithLength(lex.anagrams, order, tiles_, length)} })

\* the rows and columns of the grid that hold a letter
OccupiedRows(g, n) == {r \in 0..(n-1) : \E c \in 0..(n-1) : g[r][c] # <<>>}
OccupiedCols(g, n) == {c \in 0..(n-1) : \E r \in 0..(n-1) : g[r][c] # <<>>}

\* std::min / std::max folded over a non-empty set of indices
MinOf(S) == CHOOSE m \in S : \A e \in S : m <= e
MaxOf(S) == CHOOSE m \in S : \A e \in S : e <= m

\* last column copied into a result row: for (c = min_col; c <= max_col; ++c)
\* (variant: c < max_col)
LastColExclusive(max_col) == max_col - 1
LastCol(max_col) == max_col

\* one cell of the result: "" for an empty cell, else the upper-cased letter
ResultCell(cell) == IF cell = <<>> THEN <<>> ELSE wstringToString(ToUpper(cell))

\* Board::getResultGrid: a sequence of rows, each a sequence of cells
getResultGrid(g, n) ==
    LET rows == OccupiedRows(g, n)
        cols == OccupiedCols(g, n)
    IN
    IF rows = {} THEN <<>>
    ELSE
      LET min_row == MinOf(rows)
          max_row == MaxOf(rows)
          min_col == MinOf(cols)
          max_col == MaxOf(cols)
      IN [r \in 1..(max_row - min_row + 1) |->
            [c \in 1..(LastCol(max_col) - min_col + 1) |->
                ResultCell(g[min_row + r - 1][min_col + c - 1])]]

(***************************************************************************)
(* State.                                                                  *)
(***************************************************************************)
VARIABLES
    g_words,             \* words of the shared WordUtil loaded at startup (g_wordUtil)
    words,               \* board.wordUtil.words
    anagrams,            \* board.wordUtil.anagrams
    groupOrder,          \* iteration order of board.wordUtil.anagrams
    longest_word_length, \* board.wordUtil.longest_word_length
    accept_duplicates,   \* Board::accept_duplicates
    removed_words,       \* Board::removed_words
    tiles,               \* board.hand.tiles
    grid,                \* Board::grid
    max_grid_size,       \* Board::max_grid_size
    pc,                  \* where the driver of the board stands
    original_hand,       \* startSolver: original_hand
    first_word_length,   \* startSolver: first_word_length
    solution_found,      \* startSolver: solution_found
    stack,               \* activation records of solver(), innermost last
    retval,              \* value returned by the solver() call that just ended
    result,              \* value returned by startSolver() / insertWord()
    calls,               \* calls made so far by the driver of SpecInsert / SpecLexicon
    heap,                \* the WordUtil objects: *g_wordUtil and each handler's board.wordUtil
    boards               \* the Board of each handler thread of SpecThreads

vars == <<g_words, words, anagrams, groupOrder, longest_word_length,
          accept_duplicates, removed_words, tiles, grid, max_grid_size, pc,
          original_hand, first_word_length, solution_found, stack, retval,
          result, calls, heap, boards>>

lexiconVars == <<words, anagrams, removed_words>>
startSolverLocals == <<original_hand, first_word_length, solution_found>>
threadVars == <<heap, boards>>
fixedVars == <<g_words, groupOrder, longest_word_length, accept_duplicates, calls, threadVars>>

Lex == [words |-> words, anagrams |-> anagrams, removed_words |-> removed_words]

(***************************************************************************)
(* Inputs: word list files and hands.                                      *)
(***************************************************************************)
\* word list files, one wstring per line
WordListFiles ==
    { << <<97, 98>>, <<97, 99>>, <<98, 100>> >>,
      << <<97, 98>>, <<>>, <<99, 100, 13>> >>,
      << <<97, 98, 99>>, <<99, 97, 98>>, <<97, 98>>, <<97, 98>> >>,
      << >> }

\* the iteration orders an unordered_map with the given keys can have
Orders(keys) ==
    {o \in [1..Cardinality(keys) -> keys] :
        \A i, j \in 1..Cardinality(keys) : o[i] = o[j] => i = j}

NonDecreasing(s) == \A i \in 1..(Len(s) - 1) : s[i] <= s[i + 1]

\* the letters of a solve request
HandInputs ==
    {h \in UNION {[1..n -> Letters] : n \in 0..MaxHandLen} : NonDecreasing(h)}
      \cup { <<66, 65>>, [i \in 1..(MaxTiles + 1) |-> 97] }

(***************************************************************************)
(* Handler threads and the WordUtil objects they touch.                    *)
(***************************************************************************)
\* the detached handler threads that run at the same time
Threads == {1, 2}

\* where the WordUtil loaded at startup lives: g_wordUtil = &wordUtil
SharedWordUtil == 0

\* a WordUtil object holds words and anagrams
WordUtilObjects == {SharedWordUtil} \cup Threads

\* WordUtil() : longest_word_length(1) {}
EmptyWordUtil == [words |-> <<>>, anagrams |-> <<>>]

\* a handler that has not yet constructed its Board
NoBoard ==
    [pc |-> "idle", tiles |-> <<>>, original_hand |-> <<>>, first_word_length |-> 0,
     max_grid_size |-> 0, grid |-> <<>>, removed_words |-> <<>>]

(***************************************************************************)
(* Construction: WordUtil wordUtil(path); Board board(g_wordUtil).         *)
(***************************************************************************)
Constructed(driver, files) ==
    /\ \E lines \in files :
         /\ g_words = LoadWords(lines)
         /\ words = g_words
         /\ anagrams = BuildAnagrams(g_words)
         /\ longest_word_length = LongestWordLength(g_words)
    /\ groupOrder \in Orders(DOMAIN anagrams)
    /\ accept_duplicates \in BOOLEAN
    /\ removed_words = <<>>
    /\ tiles = <<>>
    /\ max_grid_size = GridSizeFor(<<>>)
    /\ grid = EmptyGrid(max_grid_size)
    /\ pc = driver
    /\ original_hand = <<>>
    /\ first_word_length = 0
    /\ solution_found = FALSE
    /\ stack = <<>>
    /\ retval = FALSE
    /\ result = FALSE
    /\ calls = 0
    /\ heap = [a \in WordUtilObjects |->
                  IF a = SharedWordUtil
                  THEN [words |-> g_words, anagrams |-> BuildAnagrams(g_words)]
                  ELSE EmptyWordUtil]
    /\ boards = [t \in Threads |-> NoBoard]

Init == Constructed("constructed", WordListFiles)

(***************************************************************************)
(* handleClient                                                            *)
(***************************************************************************)
\* board.hand = Hand(letters), the letters of the request drawn from inputs
SetHandFrom(inputs) ==
    /\ pc = "constructed"
    /\ \E letters \in inputs : tiles' = ToLower(letters)
    /\ pc' = "handSet"
    /\ UNCHANGED <<lexiconVars, grid, max_grid_size, startSolverLocals, stack,
                   retval, result, fixedVars>>

SetHand == SetHandFrom(HandInputs)

\* board.reset()
ResetBoard ==
    /\ pc = "handSet"
    /\ \E r \in {reset(tiles, Lex)} :
         /\ max_grid_size' = r.max_grid_size
         /\ grid' = r.grid
         /\ words' = r.lex.words
         /\ anagrams' = r.lex.anagrams
         /\ removed_words' = r.lex.removed_words
    /\ pc' = "ready"
    /\ UNCHANGED <<tiles, startSolverLocals, stack, retval, result, fixedVars>>

(***************************************************************************)
(* Board::startSolver                                                      *)
(***************************************************************************)
\* (int)hand.tiles.length() > 144
\* (variant: the limit is one letter higher)
TooLargeOffByOne(tiles_) == Len(tiles_) > MaxTiles + 1
TooLarge(tiles_) == Len(tiles_) > MaxTiles

\* --first_word_length, --word_length
\* (variant: the length is not decremented)
NextLengthStuck(length) == length
NextLength(length) == length - 1

\* solver() || hand.tiles.empty()
\* (variant: one tile left in the hand counts as solved)
SolvedOrOneLeft(returned, tiles_) == returned \/ Len(tiles_) <= 1
Solved(returned, tiles_) == returned \/ tiles_ = <<>>

\* the activation record of a solver() call at its first inner iteration;
\* hand is the hand the call was entered with, which the code does not keep
\* and no action reads
NewFrame(tiles_, g, n) ==
    [hand        |-> tiles_,
     word_length |-> Len(tiles_) + 1,
     board_tiles |-> IF Len(tiles_) + 1 > 1 THEN getTiles(g, n) ELSE <<>>,
     i           |-> 1]

\* the length the loop of startSolver starts with
\* (variant: the hand length, whatever the longest word)
FirstWordLengthOfHand(tiles_, longest) == Len(tiles_)
FirstWordLength(tiles_, longest) ==
    IF Len(tiles_) > longest THEN longest ELSE Len(tiles_)

StartSolverTooLarge ==
    /\ pc = "ready"
    /\ TooLarge(tiles)
    /\ pc' = "done"
    /\ result' = FALSE
    /\ UNCHANGED <<lexiconVars, tiles, grid, max_grid_size, startSolverLocals,
                   stack, retval, fixedVars>>

StartSolverBegin ==
    /\ pc = "ready"
    /\ ~TooLarge(tiles)
    /\ original_hand' = tiles
    /\ solution_found' = FALSE
    /\ first_word_length' = FirstWordLength(tiles, longest_word_length)
    /\ pc' = "loop"
    /\ UNCHANGED <<lexiconVars, tiles, grid, max_grid_size, stack, retval,
                   result, fixedVars>>

\* One pass of the for loop up to placeFirstWord: hand.tiles = original_hand
\* and reset() give the board the attempt starts from, then
\* placeFirstWord(first_word_length).
AttemptStart ==
    Only({ [tiles |-> original_hand, max_grid_size |-> r.max_grid_size,
            grid |-> r.grid, lex |-> r.lex] :
           r \in {reset(original_hand, Lex)} })

FirstWordAttempt ==
    Only({ placeFirstWord(s.grid, s.max_grid_size, s.tiles, s.lex,
                          groupOrder, accept_duplicates, first_word_length) :
           s \in {AttemptStart} })

\* if (!placeFirstWord(first_word_length)) continue;
AttemptNoFirstWord ==
    /\ pc = "loop"
    /\ first_word_length > 1
    /\ \E p \in {FirstWordAttempt} :
         /\ ~p.ok
         /\ tiles' = p.tiles
         /\ grid' = p.grid
         /\ max_grid_size' = GridSizeFor(original_hand)
         /\ words' = p.lex.words
         /\ anagrams' = p.lex.anagrams
         /\ removed_words' = p.lex.removed_words
    /\ first_word_length' = NextLength(first_word_length)
    /\ UNCHANGED <<pc, original_hand, solution_found, stack, retval, result, fixedVars>>

\* placeFirstWord succeeded: solver() is called
AttemptFirstWord ==
    /\ pc = "loop"
    /\ first_word_length > 1
    /\ \E p \in {FirstWordAttempt} :
         /\ p.ok
         /\ tiles' = p.tiles
         /\ grid' = p.grid
         /\ max_grid_size' = GridSizeFor(original_hand)
         /\ words' = p.lex.words
         /\ anagrams' = p.lex.anagrams
         /\ removed_words' = p.lex.removed_words
         /\ \E frame \in {NewFrame(p.tiles, p.grid, GridSizeFor(original_hand))} :
              stack' = <<frame>>
    /\ pc' = "solver"
    /\ UNCHANGED <<startSolverLocals, retval, result, fixedVars>>

\* if (solver() || hand.tiles.empty()) { solution_found = true; break; }
StartSolverFound ==
    /\ pc = "returned"
    /\ stack = <<>>
    /\ Solved(retval, tiles)
    /\ solution_found' = TRUE
    /\ result' = TRUE
    /\ pc' = "done"
    /\ UNCHANGED <<lexiconVars, tiles, grid, max_grid_size, original_hand,
                   first_word_length, stack, retval, fixedVars>>

StartSolverRetry ==
    /\ pc = "returned"
    /\ stack = <<>>
    /\ ~Solved(retval, tiles)
    /\ first_word_length' = NextLength(first_word_length)
    /\ pc' = "loop"
    /\ UNCHANGED <<lexiconVars, tiles, grid, max_grid_size, original_hand,
                   solution_found, stack, retval, result, fixedVars>>

\* the for loop ends without a solution: return solution_found
StartSolverExhausted ==
    /\ pc = "loop"
    /\ ~(first_word_length > 1)
    /\ result' = solution_found
    /\ pc' = "done"
    /\ UNCHANGED <<lexiconVars, tiles, grid, max_grid_size, startSolverLocals,
                   stack, retval, fixedVars>>

(***************************************************************************)
(* Board::solver, one activation record per call.                          *)
(***************************************************************************)
Top == stack[Len(stack)]
Caller == SubSeq(stack, 1, Len(stack) - 1)
ReplaceTop(frame) == [stack EXCEPT ![Len(stack)] = frame]

\* the tile of the inner loop and the word the Lexicon offers for it
Tile == Top.board_tiles[Top.i]
Candidate == getWordWithLength(anagrams, groupOrder, Append(tiles, Tile), Top.word_length)
Spot(word) == findSpotForWord(grid, max_grid_size, Lex, accept_duplicates, word, Tile)

InTileLoop ==
    /\ pc = "solver"
    /\ Top.word_length > 1
    /\ Top.i <= Len(Top.board_tiles)

\* if (word.empty()) continue;
SolverNoWord ==
    /\ InTileLoop
    /\ Candidate = <<>>
    /\ stack' = ReplaceTop([Top EXCEPT !.i = @ + 1])
    /\ UNCHANGED <<lexiconVars, tiles, grid, max_grid_size, pc, startSolverLocals,
                   retval, result, fixedVars>>

\* if (!findSpotForWord(word, tile)) continue;
SolverNoSpot ==
    /\ InTileLoop
    /\ \E word \in {Candidate} :
         /\ word # <<>>
         /\ \E spot \in {Spot(word)} :
              /\ ~spot.ok
              /\ grid' = spot.grid
              /\ words' = spot.lex.words
              /\ anagrams' = spot.lex.anagrams
              /\ removed_words' = spot.lex.removed_words
    /\ stack' = ReplaceTop([Top EXCEPT !.i = @ + 1])
    /\ UNCHANGED <<tiles, max_grid_size, pc, startSolverLocals, retval, result, fixedVars>>

\* findSpotForWord succeeded; if (tile_pos == npos) continue;
SolverTileNotInWord ==
    /\ InTileLoop
    /\ \E word \in {Candidate} :
         /\ word # <<>>
         /\ Find(word, Tile) = 0 - 1
         /\ \E spot \in {Spot(word)} :
              /\ spot.ok
              /\ grid' = spot.grid
              /\ words' = spot.lex.words
              /\ anagrams' = spot.lex.anagrams
              /\ removed_words' = spot.lex.removed_words
    /\ stack' = ReplaceTop([Top EXCEPT !.i = @ + 1])
    /\ UNCHANGED <<tiles, max_grid_size, pc, startSolverLocals, retval, result, fixedVars>>

\* findSpotForWord succeeded: the word's other letters leave the hand
\* (word.replace(tile_pos, 1, L"")) and solver() is called
SolverPlace ==
    /\ InTileLoop
    /\ \E word \in {Candidate} :
         /\ word # <<>>
         /\ Find(word, Tile) # 0 - 1
         /\ \E spot \in {Spot(word)} :
              /\ spot.ok
              /\ grid' = spot.grid
              /\ words' = spot.lex.words
              /\ anagrams' = spot.lex.anagrams
              /\ removed_words' = spot.lex.removed_words
              /\ \E rest \in {removeWordFromTiles(tiles, EraseAt(word, Find(word, Tile)))} :
                   /\ tiles' = rest
                   /\ \E frame \in {NewFrame(rest, spot.grid, max_grid_size)} :
                        stack' = Append(stack, frame)
    /\ UNCHANGED <<max_grid_size, pc, startSolverLocals, retval, result, fixedVars>>

\* the inner loop is through: --word_length, board_tiles = getTiles()
SolverNextLength ==
    /\ pc = "solver"
    /\ Top.word_length > 1
    /\ Top.i > Len(Top.board_tiles)
    /\ \E board_tiles \in {IF NextLength(Top.word_length) > 1
                           THEN getTiles(grid, max_grid_size) ELSE <<>>} :
         stack' = ReplaceTop([hand        |-> Top.hand,
                              word_length |-> NextLength(Top.word_length),
                              board_tiles |-> board_tiles,
                              i           |-> 1])
    /\ UNCHANGED <<lexiconVars, tiles, grid, max_grid_size, pc, startSolverLocals,
                   retval, result, fixedVars>>

\* the outer loop is through: return false
SolverReturnFalse ==
    /\ pc = "solver"
    /\ ~(Top.word_length > 1)
    /\ stack' = Caller
    /\ retval' = FALSE
    /\ pc' = "returned"
    /\ UNCHANGED <<lexiconVars, tiles, grid, max_grid_size, startSolverLocals,
                   result, fixedVars>>

\* back in the calling solver(): if (solver() || hand.tiles.empty()) return true;
SolverReturnTrue ==
    /\ pc = "returned"
    /\ stack # <<>>
    /\ Solved(retval, tiles)
    /\ stack' = Caller
    /\ retval' = TRUE
    /\ UNCHANGED <<lexiconVars, tiles, grid, max_grid_size, pc, startSolverLocals,
                   result, fixedVars>>

\* back in the calling solver(): the call failed and tiles are left, next tile
SolverContinue ==
    /\ pc = "returned"
    /\ stack # <<>>
    /\ ~Solved(retval, tiles)
    /\ stack' = ReplaceTop([Top EXCEPT !.i = @ + 1])
    /\ pc' = "solver"
    /\ UNCHANGED <<lexiconVars, tiles, grid, max_grid_size, startSolverLocals,
                   retval, result, fixedVars>>

\* everything handleClient does once the hand is set
Solve ==
    \/ ResetBoard
    \/ StartSolverTooLarge
    \/ StartSolverBegin
    \/ AttemptNoFirstWord
    \/ AttemptFirstWord
    \/ StartSolverFound
    \/ StartSolverRetry
    \/ StartSolverExhausted
    \/ SolverNoWord
    \/ SolverNoSpot
    \/ SolverTileNotInWord
    \/ SolverPlace
    \/ SolverNextLength
    \/ SolverReturnFalse
    \/ SolverReturnTrue
    \/ SolverContinue

Next == SetHand \/ Solve

Spec == Init /\ [][Next]_vars

\* the handler thread runs startSolver to its end without being suspended
SpecFair == Init /\ [][Next]_vars /\ WF_vars(Next)

(***************************************************************************)
(* A caller of the public Board::insertWord: on a board that was reset for *)
(* a hand it calls insertWord up to MaxInserts times, with any word,       *)
(* start coordinate, orientation and seed.                                 *)
(***************************************************************************)
\* insertWord does not look at the Lexicon: one word list, duplicates disallowed
InsertWordList == << <<97, 98>> >>

InsertWords == { <<97, 98>>, <<100, 97, 99>> }

\* the hands the board is reset for: max_grid_size 10 and 12
InsertHands == { <<>>, <<97, 97, 98, 98, 99, 100>> }

\* start coordinates: below and at the low edge, around the centre, at the
\* high edge
InsertCoords(n) ==
    ((0 - 1)..MaxCoord) \cup {(n \div 2) - 1, n \div 2} \cup {n - 1}

\* start coordinates a call can carry: those of the caller and every
\* coordinate up to two cells inside and outside either edge
EdgeCoords(n) ==
    InsertCoords(n) \cup ((0 - 2)..1) \cup ((n - 3)..n)

\* seed_xy: {-1, -1} or the {col, row} of an occupied cell
InsertSeeds(g, n) ==
    { <<0 - 1, 0 - 1>> } \cup
    {xy \in (0..(n - 1)) \X (0..(n - 1)) : g[xy[2]][xy[1]] # <<>>}

\* the arguments a call can carry: <<word, x, y, is_horizontal, seed_xy>>
InsertArgs ==
    InsertWords \X InsertCoords(max_grid_size) \X InsertCoords(max_grid_size)
        \X BOOLEAN \X InsertSeeds(grid, max_grid_size)

\* the same with the start coordinates at and beyond the edges
EdgeArgs ==
    InsertWords \X EdgeCoords(max_grid_size) \X EdgeCoords(max_grid_size)
        \X BOOLEAN \X InsertSeeds(grid, max_grid_size)

InitInsert == Constructed("constructed", {InsertWordList}) /\ ~accept_duplicates

SetHandInsert == SetHandFrom(InsertHands)

\* insertWord(word, x, y, is_horizontal, seed_xy) returns true
InsertOk ==
    /\ pc \in {"ready", "inserted"}
    /\ calls < MaxInserts
    /\ \E a \in InsertArgs :
         \E r \in {insertWord(grid, max_grid_size, a[1], a[2], a[3], a[4], a[5])} :
           /\ r.ok
           /\ grid' = r.grid
    /\ result' = TRUE
    /\ pc' = "inserted"
    /\ calls' = calls + 1
    /\ UNCHANGED <<lexiconVars, tiles, max_grid_size, startSolverLocals, stack,
                   retval, g_words, groupOrder, longest_word_length,
                   accept_duplicates, threadVars>>

\* insertWord(word, x, y, is_horizontal, seed_xy) returns false
InsertFail ==
    /\ pc \in {"ready", "inserted"}
    /\ calls < MaxInserts
    /\ \E a \in InsertArgs :
         \E r \in {insertWord(grid, max_grid_size, a[1], a[2], a[3], a[4], a[5])} :
           /\ ~r.ok
           /\ grid' = r.grid
    /\ result' = FALSE
    /\ pc' = "inserted"
    /\ calls' = calls + 1
    /\ UNCHANGED <<lexiconVars, tiles, max_grid_size, startSolverLocals, stack,
                   retval, g_words, groupOrder, longest_word_length,
                   accept_duplicates, threadVars>>

NextInsert == SetHandInsert \/ ResetBoard \/ InsertOk \/ InsertFail

SpecInsert == InitInsert /\ [][NextInsert]_vars

\* A caller that puts one word on the fresh board, from any start coordinate
\* at, next to or beyond the edges.
EdgeInsert ==
    /\ pc = "ready"
    /\ calls < MaxInserts
    /\ \E a \in EdgeArgs :
         \E r \in {insertWord(grid, max_grid_size, a[1], a[2], a[3], a[4], a[5])} :
           /\ grid' = r.grid
           /\ result' = r.ok
    /\ pc' = "inserted"
    /\ calls' = calls + 1
    /\ UNCHANGED <<lexiconVars, tiles, max_grid_size, startSolverLocals, stack,
                   retval, g_words, groupOrder, longest_word_length,
                   accept_duplicates, threadVars>>

NextEdge == SetHandInsert \/ ResetBoard \/ EdgeInsert

SpecEdge == InitInsert /\ [][NextEdge]_vars

(***************************************************************************)
(* A caller of Hand::removeWordFromTiles: it sets any hand of up to        *)
(* MaxHandLen letters, in any order, and takes words from it, up to        *)
(* MaxRemovals times; the words are of up to three letters, over two of   *)
(* the letters of the hands and one letter no hand holds.                  *)
(***************************************************************************)
ConsumeHands == UNION {[1..n -> Letters] : n \in 0..MaxHandLen}

ConsumeWords == UNION {[1..n -> {97, 98, 101}] : n \in 0..3}

SetHandConsume == SetHandFrom(ConsumeHands)

Consume ==
    /\ pc = "handSet"
    /\ calls < MaxRemovals
    /\ \E word \in ConsumeWords : tiles' = removeWordFromTiles(tiles, word)
    /\ calls' = calls + 1
    /\ UNCHANGED <<lexiconVars, grid, max_grid_size, pc, startSolverLocals, stack,
                   retval, result, g_words, groupOrder, longest_word_length,
                   accept_duplicates, threadVars>>

NextHand == SetHandConsume \/ Consume

SpecHand == InitInsert /\ [][NextHand]_vars

(***************************************************************************)
(* A caller of the public Board::removeWordFromWordlist and Board::reset   *)
(* on a constructed board.                                                 *)
(***************************************************************************)
InitLexicon == Constructed("lexicon", WordListFiles)

LexRemove ==
    /\ pc = "lexicon"
    /\ calls < MaxRemovals
    /\ \E word \in {words[i] : i \in 1..Len(words)} :
         \E l \in {removeWordFromWordlist(Lex, accept_duplicates, word)} :
           /\ words' = l.words
           /\ anagrams' = l.anagrams
           /\ removed_words' = l.removed_words
    /\ calls' = calls + 1
    /\ UNCHANGED <<g_words, groupOrder, longest_word_length, accept_duplicates,
                   tiles, grid, max_grid_size, pc, startSolverLocals, stack,
                   retval, result, threadVars>>

LexReset ==
    /\ pc = "lexicon"
    /\ \E r \in {reset(tiles, Lex)} :
         /\ max_grid_size' = r.max_grid_size
         /\ grid' = r.grid
         /\ words' = r.lex.words
         /\ anagrams' = r.lex.anagrams
         /\ removed_words' = r.lex.removed_words
    /\ UNCHANGED <<tiles, pc, startSolverLocals, stack, retval, result, fixedVars>>

NextLexicon == LexRemove \/ LexReset

SpecLexicon == InitLexicon /\ [][NextLexicon]_vars

(***************************************************************************)
(* Several requests at once: main() detaches one handleClient thread per   *)
(* connection.  Each handler constructs its own Board from *g_wordUtil and *)
(* runs the Board methods startSolver is made of on it; the steps of the   *)
(* handlers interleave.  The loops of startSolver and solver are followed   *)
(* loosely: any tile of the board and any word length may come next.       *)
(***************************************************************************)
\* the WordUtil object that the member wordUtil of handler t's Board is:
\* Board(WordUtil wordUtil, ..) : wordUtil(wordUtil) holds a copy of its own
\* (variant: the Board refers to the WordUtil loaded at startup)
BoardWordUtilShared(t) == SharedWordUtil
BoardWordUtil(t) == t

\* the Lexicon handler t's Board works on
ThreadLex(t) ==
    [words         |-> heap[BoardWordUtil(t)].words,
     anagrams      |-> heap[BoardWordUtil(t)].anagrams,
     removed_words |-> boards[t].removed_words]

\* the Lexicon lex written to handler t's Board
StoreLex(t, lex) ==
    [heap EXCEPT ![BoardWordUtil(t)] = [words |-> lex.words, anagrams |-> lex.anagrams]]

\* the letters of the requests that arrive together
ThreadHands == { <<97, 98, 99, 100>>, <<97, 98, 100>> }

\* dictionary of the server the requests go to
ThreadWordList == << <<97, 98>>, <<97, 99>>, <<98, 100>> >>

InitThreads == Constructed("threads", {ThreadWordList}) /\ ~accept_duplicates

\* Board board(*g_wordUtil): the argument is copied into the member, reset()
ThreadConstruct(t) ==
    /\ boards[t].pc = "idle"
    /\ heap' = [heap EXCEPT ![BoardWordUtil(t)] = heap[SharedWordUtil]]
    /\ boards' = [boards EXCEPT ![t] =
                    [NoBoard EXCEPT !.pc = "constructed",
                                    !.max_grid_size = GridSizeFor(<<>>),
                                    !.grid = EmptyGrid(GridSizeFor(<<>>))]]
    /\ UNCHANGED <<lexiconVars, tiles, grid, max_grid_size, pc, startSolverLocals,
                   stack, retval, result, g_words, groupOrder, longest_word_length,
                   accept_duplicates, calls>>

\* board.hand = Hand(letters)
ThreadSetHand(t) ==
    /\ boards[t].pc = "constructed"
    /\ \E letters \in ThreadHands :
         boards' = [boards EXCEPT ![t].tiles = ToLower(letters), ![t].pc = "handSet"]
    /\ UNCHANGED <<lexiconVars, tiles, grid, max_grid_size, pc, startSolverLocals,
                   stack, retval, result, g_words, groupOrder, longest_word_length,
                   accept_duplicates, calls, heap>>

\* board.reset()
ThreadReset(t) ==
    /\ boards[t].pc = "handSet"
    /\ \E r \in {reset(boards[t].tiles, ThreadLex(t))} :
         /\ heap' = StoreLex(t, r.lex)
         /\ boards' = [boards EXCEPT ![t].max_grid_size = r.max_grid_size,
                                     ![t].grid = r.grid,
                                     ![t].removed_words = r.lex.removed_words,
                                     ![t].pc = "ready"]
    /\ UNCHANGED <<lexiconVars, tiles, grid, max_grid_size, pc, startSolverLocals,
                   stack, retval, result, g_words, groupOrder, longest_word_length,
                   accept_duplicates, calls>>

\* startSolver up to its for loop
ThreadBegin(t) ==
    /\ boards[t].pc = "ready"
    /\ ~TooLarge(boards[t].tiles)
    /\ boards' = [boards EXCEPT
                    ![t].original_hand = boards[t].tiles,
                    ![t].first_word_length =
                        FirstWordLength(boards[t].tiles, longest_word_length),
                    ![t].pc = "loop"]
    /\ UNCHANGED <<lexiconVars, tiles, grid, max_grid_size, pc, startSolverLocals,
                   stack, retval, result, g_words, groupOrder, longest_word_length,
                   accept_duplicates, calls, heap>>

\* one pass of the for loop of startSolver: hand.tiles = original_hand,
\* reset(), placeFirstWord(first_word_length)
ThreadAttempt(t) ==
    /\ boards[t].pc \in {"loop", "solver"}
    /\ boards[t].first_word_length > 1
    /\ \E r \in {reset(boards[t].original_hand, ThreadLex(t))} :
         \E p \in {placeFirstWord(r.grid, r.max_grid_size, boards[t].original_hand,
                                  r.lex, groupOrder, accept_duplicates,
                                  boards[t].first_word_length)} :
           /\ heap' = StoreLex(t, p.lex)
           /\ boards' = [boards EXCEPT
                           ![t].tiles = p.tiles,
                           ![t].max_grid_size = r.max_grid_size,
                           ![t].grid = p.grid,
                           ![t].removed_words = p.lex.removed_words,
                           ![t].first_word_length = NextLength(boards[t].first_word_length),
                           ![t].pc = IF p.ok THEN "solver" ELSE "loop"]
    /\ UNCHANGED <<lexiconVars, tiles, grid, max_grid_size, pc, startSolverLocals,
                   stack, retval, result, g_words, groupOrder, longest_word_length,
                   accept_duplicates, calls>>

\* one pass of the inner loop of solver in which findSpotForWord succeeds
ThreadExtend(t) ==
    /\ boards[t].pc = "solver"
    /\ \E tile \in Range(getTiles(boards[t].grid, boards[t].max_grid_size)),
          word_length \in 2..(Len(boards[t].tiles) + 1) :
         \E word \in {getWordWithLength(heap[BoardWordUtil(t)].anagrams, groupOrder,
                                        Append(boards[t].tiles, tile), word_length)} :
           /\ word # <<>>
           /\ \E spot \in {findSpotForWord(boards[t].grid, boards[t].max_grid_size,
                                           ThreadLex(t), accept_duplicates, word, tile)} :
                /\ spot.ok
                /\ heap' = StoreLex(t, spot.lex)
                /\ boards' = [boards EXCEPT
                                ![t].grid = spot.grid,
                                ![t].removed_words = spot.lex.removed_words,
                                ![t].tiles =
                                    IF Find(word, tile) = 0 - 1 THEN @
                                    ELSE removeWordFromTiles(@, EraseAt(word, Find(word, tile)))]
    /\ UNCHANGED <<lexiconVars, tiles, grid, max_grid_size, pc, startSolverLocals,
                   stack, retval, result, g_words, groupOrder, longest_word_length,
                   accept_duplicates, calls>>

\* startSolver returns, the Board goes out of scope at the end of handleClient
ThreadReturn(t) ==
    /\ boards[t].pc \in {"loop", "solver"}
    /\ boards' = [boards EXCEPT ![t].pc = "done"]
    /\ UNCHANGED <<lexiconVars, tiles, grid, max_grid_size, pc, startSolverLocals,
                   stack, retval, result, g_words, groupOrder, longest_word_length,
                   accept_duplicates, calls, heap>>

NextThreads ==
    \E t \in Threads :
        \/ ThreadConstruct(t)
        \/ ThreadSetHand(t)
        \/ ThreadReset(t)
        \/ ThreadBegin(t)
        \/ ThreadAttempt(t)
        \/ ThreadExtend(t)
        \/ ThreadReturn(t)

SpecThreads == InitThreads /\ [][NextThreads]_vars

(***************************************************************************)
(* Vocabulary of the properties.                                           *)
(***************************************************************************)
\* two letter sequences hold the same multiset of letters
SameLetters(a, b) ==
    /\ Len(a) = Len(b)
    /\ \A c \in Range(a) \cup Range(b) : Count(a, c) = Count(b, c)

Occupied(r, c) ==
    /\ r \in 0..(max_grid_size - 1)
    /\ c \in 0..(max_grid_size - 1)
    /\ grid[r][c] # <<>>

OccupiedCells ==
    {rc \in (0..(max_grid_size - 1)) \X (0..(max_grid_size - 1)) : Occupied(rc[1], rc[2])}

\* startSolver has passed its size check and has not returned, or has returned
InStartSolver == pc \in {"loop", "solver", "returned"}
Returned == pc = "done"
Success == pc = "done" /\ result

\* the letters of the cells (r, a) .. (r, b) and of the cells (a, c) .. (b, c)
RowWord(r, a, b) == [i \in 1..(b - a + 1) |-> grid[r][a + i - 1][1]]
ColWord(c, a, b) == [i \in 1..(b - a + 1) |-> grid[a + i - 1][c][1]]

\* maximal runs of two or more occupied cells, as <<line, first, last>>
HorizontalRuns ==
    {run \in (0..(max_grid_size - 1)) \X (0..(max_grid_size - 1)) \X (0..(max_grid_size - 1)) :
        /\ run[2] < run[3]
        /\ \A c \in run[2]..run[3] : Occupied(run[1], c)
        /\ ~Occupied(run[1], run[2] - 1)
        /\ ~Occupied(run[1], run[3] + 1)}

VerticalRuns ==
    {run \in (0..(max_grid_size - 1)) \X (0..(max_grid_size - 1)) \X (0..(max_grid_size - 1)) :
        /\ run[2] < run[3]
        /\ \A r \in run[2]..run[3] : Occupied(r, run[1])
        /\ ~Occupied(run[2] - 1, run[1])
        /\ ~Occupied(run[3] + 1, run[1])}

InDictionary(w) == \E i \in 1..Len(g_words) : g_words[i] = w

(***************************************************************************)
(* C1.  When startSolver returns true with duplicates disallowed, every    *)
(* maximal horizontal or vertical run of two or more occupied cells of the *)
(* grid spells a word of the dictionary loaded before the solve.           *)
(***************************************************************************)
C1_RunsAreDictionaryWords ==
    (Success /\ ~accept_duplicates) =>
        /\ \A run \in HorizontalRuns : InDictionary(RowWord(run[1], run[2], run[3]))
        /\ \A run \in VerticalRuns : InDictionary(ColWord(run[1], run[2], run[3]))

(***************************************************************************)
(* C2.  Letter conservation: from the moment startSolver has recorded the  *)
(* original hand, after every step and on return, the letters on the grid  *)
(* (each cell once) together with the letters left in the hand are exactly *)
(* the letters of the original hand.                                       *)
(***************************************************************************)
C2_LetterConservation ==
    (InStartSolver \/ (Returned /\ ~TooLarge(tiles))) =>
        SameLetters(getTiles(grid, max_grid_size) \o tiles, original_hand)

(***************************************************************************)
(* C3.  startSolver terminates: whatever the hand and the dictionary, and  *)
(* whether duplicates are permitted or not, the call returns.              *)
(***************************************************************************)
C3_StartSolverTerminates == <>(pc = "done")

\* a solve with duplicates permitted that placed words and has returned
C3_Witness ==
    /\ pc = "done"
    /\ accept_duplicates
    /\ Len(original_hand) > 2
    /\ tiles # original_hand

(***************************************************************************)
(* C4.  When startSolver returns true, the occupied cells form one         *)
(* connected layout: any two of them are joined by a path of horizontally  *)
(* or vertically adjacent occupied cells.                                  *)
(***************************************************************************)
Adjacent(p, q) ==
    \/ p[1] = q[1] /\ (p[2] = q[2] + 1 \/ q[2] = p[2] + 1)
    \/ p[2] = q[2] /\ (p[1] = q[1] + 1 \/ q[1] = p[1] + 1)

\* the occupied cells joined to a cell of S by a path of occupied cells
RECURSIVE ReachFrom(_)
ReachFrom(S) ==
    LET T == S \cup {p \in OccupiedCells : \E q \in S : Adjacent(p, q)} IN
    IF T = S THEN S ELSE ReachFrom(T)

C4_Connected ==
    Success =>
        \A p \in OccupiedCells : ReachFrom({p}) = OccupiedCells

\* a successful solve whose layout holds a crossing word
C4_Witness ==
    /\ Success
    /\ VerticalRuns # {}
    /\ HorizontalRuns # {}

(***************************************************************************)
(* C5.  A call of insertWord that returns false leaves the grid cell for   *)
(* cell as it was before the call.                                         *)
(***************************************************************************)
C5_FailedInsertKeepsGrid ==
    [][(pc' = "inserted" /\ ~result') => grid' = grid]_vars

\* a call that failed on a grid that holds letters
C5_Witness ==
    /\ pc = "inserted"
    /\ ~result
    /\ OccupiedCells # {}

(***************************************************************************)
(* C6.  Removing words of the Lexicon and restoring them by reset gives    *)
(* back an equivalent Lexicon: the word list holds the same words and each *)
(* anagram group has the same members as in the Lexicon as loaded.  When   *)
(* the word list as loaded repeats no word, each word is also held as      *)
(* often as before.                                                        *)
(***************************************************************************)
NoRepeats(s) == \A i, j \in 1..Len(s) : s[i] = s[j] => i = j

C6_RemoveThenRestore ==
    (pc = "lexicon" /\ removed_words = <<>>) =>
        /\ Range(words) = Range(g_words)
        /\ DOMAIN anagrams = DOMAIN BuildAnagrams(g_words)
        /\ \A k \in DOMAIN anagrams :
              Range(anagrams[k]) = Range(BuildAnagrams(g_words)[k])
        /\ NoRepeats(g_words) =>
              /\ Len(words) = Len(g_words)
              /\ \A k \in DOMAIN anagrams :
                    Len(anagrams[k]) = Len(BuildAnagrams(g_words)[k])

\* a word was removed and reset has restored it (it now stands elsewhere in
\* the word list)
C6_Witness ==
    /\ pc = "lexicon"
    /\ ~accept_duplicates
    /\ calls > 0
    /\ removed_words = <<>>
    /\ words # g_words

(***************************************************************************)
(* C7.  With more than 144 letters in the hand startSolver returns false   *)
(* at once: no attempt is started and grid, hand, Lexicon and undo log     *)
(* stay as they were.                                                      *)
(***************************************************************************)
C7_TooLargeRejected ==
    [][(pc = "ready" /\ Len(tiles) > MaxTiles) =>
          /\ pc' = "done"
          /\ result' = FALSE
          /\ UNCHANGED <<grid, max_grid_size, tiles, words, anagrams, removed_words>>]_vars

C7_Witness ==
    /\ pc = "done"
    /\ Len(tiles) = MaxTiles + 1
    /\ ~result

(***************************************************************************)
(* C8.  If the hand has 2 to 144 letters and the dictionary holds an exact *)
(* anagram of the whole hand, startSolver returns true with the hand       *)
(* empty, and the grid holds one horizontal run, as long as the hand, that *)
(* spells a dictionary word which is an anagram of the hand; every other   *)
(* cell is empty.                                                          *)
(***************************************************************************)
ExactAnagramInDictionary(hand) ==
    \E i \in 1..Len(g_words) : SameLetters(g_words[i], hand)

C8_ExactAnagramSolved ==
    (/\ Returned
     /\ Len(original_hand) >= 2
     /\ Len(original_hand) <= MaxTiles
     /\ ExactAnagramInDictionary(original_hand))
    =>
        /\ result
        /\ tiles = <<>>
        /\ \E r, a \in 0..(max_grid_size - 1) :
              LET b == a + Len(original_hand) - 1 IN
              /\ b <= max_grid_size - 1
              /\ OccupiedCells = {r} \X (a..b)
              /\ InDictionary(RowWord(r, a, b))
              /\ SameLetters(RowWord(r, a, b), original_hand)

C8_Witness ==
    /\ Returned
    /\ Len(original_hand) = 3
    /\ ExactAnagramInDictionary(original_hand)
    /\ result

(***************************************************************************)
(* C9.  If no dictionary word of two or more letters can be built from the *)
(* hand, startSolver called on the freshly reset board returns false, no   *)
(* letter is ever written to the grid and the trimmed result is empty.     *)
(***************************************************************************)
\* the hand the request carried
InputHand == IF InStartSolver \/ (Returned /\ ~TooLarge(tiles)) THEN original_hand ELSE tiles

Buildable(word, hand) == \A c \in Range(word) : Count(word, c) <= Count(hand, c)

NoWordBuildable(hand) ==
    ~ \E i \in 1..Len(g_words) : Len(g_words[i]) >= 2 /\ Buildable(g_words[i], hand)

C9_NothingBuildableFails ==
    (pc \in {"ready", "loop", "solver", "returned", "done"} /\ NoWordBuildable(InputHand)) =>
        /\ \A r, c \in 0..(max_grid_size - 1) : grid[r][c] = <<>>
        /\ getResultGrid(grid, max_grid_size) = <<>>
        /\ Returned => ~result

\* a hand of two letters, shorter than or as long as the longest word, from
\* which nothing can be built, has been tried and rejected
C9_Witness ==
    /\ Returned
    /\ ~result
    /\ Len(original_hand) = 2
    /\ longest_word_length >= 2
    /\ NoWordBuildable(original_hand)

(***************************************************************************)
(* C10.  The result of getResultGrid is the smallest rectangle of the grid *)
(* that contains every occupied cell: its first and last row and its first *)
(* and last column each hold an occupied cell, and each of its cells       *)
(* corresponds to the grid cell at the same place, an empty cell to an     *)
(* empty cell; an empty grid gives an empty result.                        *)
(* Corresponds(res, cell) says how a result cell renders a grid cell.      *)
(***************************************************************************)
TrimmedTo(Corresponds(_, _)) ==
    LET res == getResultGrid(grid, max_grid_size) IN
    IF OccupiedCells = {} THEN res = <<>>
    ELSE
      \E r0, c0 \in 0..(max_grid_size - 1) :
        LET h == Len(res)
            w == Len(res[1])
        IN
        /\ h >= 1 /\ w >= 1
        /\ r0 + h <= max_grid_size
        /\ c0 + w <= max_grid_size
        /\ \A i \in 1..h : Len(res[i]) = w
        /\ \A p \in OccupiedCells :
              p[1] \in r0..(r0 + h - 1) /\ p[2] \in c0..(c0 + w - 1)
        /\ \E c \in c0..(c0 + w - 1) : Occupied(r0, c)
        /\ \E c \in c0..(c0 + w - 1) : Occupied(r0 + h - 1, c)
        /\ \E r \in r0..(r0 + h - 1) : Occupied(r, c0)
        /\ \E r \in r0..(r0 + h - 1) : Occupied(r, c0 + w - 1)
        /\ \A i \in 1..h, j \in 1..w :
              Corresponds(res[i][j], grid[r0 + i - 1][c0 + j - 1])

\* the result cell is the grid cell itself
SameCell(res, cell) == res = cell

\* the result cell is empty for an empty cell, else the grid cell's letter in
\* upper case
UpperCased(res, cell) ==
    IF cell = <<>> THEN res = <<>>
    ELSE res # <<>> /\ res = Utf8(ToUpperChar(cell[1]))

\* C10 as stated: each result cell equals the corresponding grid cell
C10_ResultEqualsGridCells == TrimmedTo(SameCell)

\* C10 as amended: each result cell is the upper-cased letter of the
\* corresponding grid cell, an empty cell staying empty
C10_ResultIsUpperCasedBoundingBox == TrimmedTo(UpperCased)

\* a layout with a crossing word, so that the rectangle holds empty cells
C10_Witness ==
    /\ pc = "inserted"
    /\ VerticalRuns # {}
    /\ HorizontalRuns # {}
    /\ \E i \in 1..Len(getResultGrid(grid, max_grid_size)) :
         \E j \in 1..Len(getResultGrid(grid, max_grid_size)[i]) :
            getResultGrid(grid, max_grid_size)[i][j] = <<>>

(***************************************************************************)
(* C11.  With handler threads running at the same time, in every           *)
(* interleaving the WordUtil loaded at startup is never modified, a step   *)
(* of one handler leaves the Board and the WordUtil copy of every other    *)
(* handler as they were, and the Lexicon a handler sees misses exactly the *)
(* words of its own undo log, so no removal or restore of another request  *)
(* shows in it.                                                            *)
(***************************************************************************)
\* the Lexicon of every constructed Board holds the loaded words but those
\* its own undo log lists
OwnRemovalsOnly ==
    \A t \in Threads :
        boards[t].pc # "idle" =>
            /\ Range(ThreadLex(t).words) = Range(g_words) \ Range(boards[t].removed_words)
            /\ \A k \in DOMAIN BuildAnagrams(g_words) :
                  Range(ThreadLex(t).anagrams[k]) =
                      Range(BuildAnagrams(g_words)[k]) \ Range(boards[t].removed_words)

C11_HandlersIsolated ==
    [][/\ heap'[SharedWordUtil] = heap[SharedWordUtil]
       /\ g_words' = g_words
       /\ \E t \in Threads :
            \A u \in Threads \ {t} : boards'[u] = boards[u] /\ heap'[u] = heap[u]
       /\ OwnRemovalsOnly']_vars

\* both handlers are in their solve and have removed different words
C11_Witness ==
    /\ \A t \in Threads : boards[t].pc = "solver" /\ boards[t].removed_words # <<>>
    /\ Range(boards[1].removed_words) # Range(boards[2].removed_words)
    /\ heap[1] # heap[2]

(***************************************************************************)
(* C12: startSolver returns true only with an empty hand, and a solver()   *)
(* call hands true to its caller only when the hand is empty at that       *)
(* moment.                                                                 *)
(***************************************************************************)
C12_SuccessOnlyWithEmptyHand ==
    /\ Success => tiles = <<>>
    /\ (pc = "returned" /\ retval) => tiles = <<>>

\* startSolver has returned true after a nested solver() call returned true
C12_Witness ==
    /\ Success
    /\ retval
    /\ Len(original_hand) > first_word_length
    /\ tiles = <<>>

(***************************************************************************)
(* Vocabulary of the insertWord properties.  A call is the tuple           *)
(* <<word, x, y, is_horizontal, seed_xy>>; cells are <<row, col>>.         *)
(***************************************************************************)
\* the cell of the word's i-th letter
TargetCell(a, i) ==
    IF a[4] THEN <<a[3], a[2] + i - 1>> ELSE <<a[3] + i - 1, a[2]>>

SeedCell(a) == <<a[5][2], a[5][1]>>

\* the cells the call writes: every target cell but the seed cell
WrittenCells(a) ==
    {TargetCell(a, i) : i \in 1..Len(a[1])} \ {SeedCell(a)}

\* the two cells next to rc across the word's direction
PerpendicularCells(a, rc) ==
    IF a[4] THEN { <<rc[1] - 1, rc[2]>>, <<rc[1] + 1, rc[2]>> }
            ELSE { <<rc[1], rc[2] - 1>>, <<rc[1], rc[2] + 1>> }

\* the outcome of the call on the board as it stands
Inserted(a) == insertWord(grid, max_grid_size, a[1], a[2], a[3], a[4], a[5])

\* the board is ready for a call of the insertWord caller
CanInsert == pc \in {"ready", "inserted"} /\ calls < MaxInserts

(***************************************************************************)
(* C13: whenever insertWord returns true, horizontal or vertical, both     *)
(* cells across the word's direction next to every letter it wrote are     *)
(* empty in the grid it leaves.                                            *)
(***************************************************************************)
C13_PerpendicularNeighboursEmpty ==
    CanInsert =>
        \A a \in InsertArgs :
            \A r \in {Inserted(a)} :
                r.ok =>
                    \A rc \in WrittenCells(a) :
                        \A nb \in PerpendicularCells(a, rc) :
                            r.grid[nb[1]][nb[2]] = <<>>

(***************************************************************************)
(* C14: an insertWord call that returns true writes only into cells that   *)
(* were empty: every cell that held a letter before the call, the seed     *)
(* cell included, holds the same letter afterwards, and no target cell of  *)
(* the word other than the seed cell held a letter before the call.        *)
(***************************************************************************)
C14_WritesOnlyEmptyCells ==
    CanInsert =>
        \A a \in InsertArgs :
            \A r \in {Inserted(a)} :
                r.ok =>
                    /\ \A row, col \in 0..(max_grid_size - 1) :
                          grid[row][col] # <<>> => r.grid[row][col] = grid[row][col]
                    /\ \A rc \in WrittenCells(a) : grid[rc[1]][rc[2]] = <<>>

\* after a successful call, a further call through an occupied seed cell
\* succeeds
C14_Witness ==
    /\ pc = "inserted"
    /\ result
    /\ calls < MaxInserts
    /\ \E a \in InsertArgs :
          /\ a[5] # <<0 - 1, 0 - 1>>
          /\ \E i \in 1..Len(a[1]) : TargetCell(a, i) = SeedCell(a)
          /\ Inserted(a).ok

(***************************************************************************)
(* C15: for every insertWord call (any word, any start coordinate,         *)
(* negative ones included, either orientation, seed none or an occupied    *)
(* cell) every grid cell the call reads or writes, target cells and the    *)
(* neighbour cells of the adjacency checks alike, has its row and its      *)
(* column in 0..max_grid_size-1.                                           *)
(***************************************************************************)
C15_TouchedCellsInGrid ==
    CanInsert =>
        \A a \in EdgeArgs :
            \A rc \in Touched(grid, max_grid_size, a[1], a[2], a[3], a[4], a[5]) :
                InGrid(max_grid_size, rc)

\* after a successful call: a call through an occupied seed cell touches
\* cells, a call that starts in the last but one column touches the last
\* column, and a call from a negative start coordinate fails
C15_Witness ==
    /\ CanInsert
    /\ pc = "inserted"
    /\ result
    /\ \E a \in EdgeArgs :
          /\ a[5] # <<0 - 1, 0 - 1>>
          /\ \E i \in 1..Len(a[1]) : TargetCell(a, i) = SeedCell(a)
          /\ Touched(grid, max_grid_size, a[1], a[2], a[3], a[4], a[5]) # {}
    /\ \E a \in EdgeArgs :
          \E rc \in Touched(grid, max_grid_size, a[1], a[2], a[3], a[4], a[5]) :
              rc[2] = max_grid_size - 1
    /\ \E a \in EdgeArgs :
          /\ a[2] < 0
          /\ ~Inserted(a).ok

(***************************************************************************)
(* C16: findSpotForWord returns true only for a word that contains the     *)
(* seed letter, and then the word runs through an occupied cell that holds *)
(* the seed letter: along one orientation the grid spells the whole word,  *)
(* that cell being at the index of the first occurrence of the seed letter *)
(* in the word.                                                            *)
(***************************************************************************)
\* the grid g spells word along one orientation with the cell <<row, col>> at
\* the (0-based) index pos of the word
SpelledThrough(g, n, word, row, col, is_horizontal, pos) ==
    \A i \in 1..Len(word) :
        \E rc \in {IF is_horizontal THEN <<row, col + (i - 1) - pos>>
                                    ELSE <<row + (i - 1) - pos, col>>} :
            InGrid(n, rc) /\ g[rc[1]][rc[2]] = <<word[i]>>

C16_SpotCrossesSeed ==
    InTileLoop =>
        \A word \in {Candidate} :
            word # <<>> =>
                \A spot \in {Spot(word)} :
                    spot.ok =>
                        /\ Find(word, Tile) # 0 - 1
                        /\ \E row, col \in 0..(max_grid_size - 1) :
                              /\ grid[row][col] = <<Tile>>
                              /\ \E is_horizontal \in BOOLEAN :
                                    SpelledThrough(spot.grid, max_grid_size, word,
                                                   row, col, is_horizontal,
                                                   Find(word, Tile))

(***************************************************************************)
(* C17: when findSpotForWord returns false, the grid, the Lexicon (word    *)
(* list and anagram groups), the undo log and the hand are exactly as they *)
(* were before the call.                                                   *)
(***************************************************************************)
\* findSpotForWord is about to be called in solver() and will return false
SpotFails ==
    /\ InTileLoop
    /\ \E word \in {Candidate} : word # <<>> /\ ~Spot(word).ok

C17_FailedSpotChangesNothing ==
    [][SpotFails =>
         /\ grid' = grid
         /\ words' = words
         /\ anagrams' = anagrams
         /\ removed_words' = removed_words
         /\ tiles' = tiles]_vars

\* the call for the tile before this one has returned false after its tries
\* at the cells that hold the tile, on a board with more than one word
C17_Witness ==
    /\ InTileLoop
    /\ Top.i > 1
    /\ Len(removed_words) > 1
    /\ \E tile \in {Top.board_tiles[Top.i - 1]} :
          \E word \in {getWordWithLength(anagrams, groupOrder, Append(tiles, tile),
                                        Top.word_length)} :
            /\ word # <<>>
            /\ ~findSpotForWord(grid, max_grid_size, Lex, accept_duplicates, word,
                                tile).ok

(***************************************************************************)
(* C18: every pass of the loop of startSolver starts from the same board:  *)
(* the hand is the original hand, the grid is a square of side             *)
(* max(10, 2 x length of the original hand) with every cell empty, the     *)
(* undo log is empty and the Lexicon holds the words, in the word list and *)
(* in every anagram group, that it held when startSolver was called,       *)
(* whatever the passes before placed or removed.                           *)
(***************************************************************************)
\* the Lexicon lex holds the words the word list was loaded with
HoldsLoadedWords(lex) ==
    /\ Range(lex.words) = Range(g_words)
    /\ DOMAIN lex.anagrams = DOMAIN BuildAnagrams(g_words)
    /\ \A k \in DOMAIN lex.anagrams :
          Range(lex.anagrams[k]) = Range(BuildAnagrams(g_words)[k])

SideFor(hand) == IF 2 * Len(hand) > MinGridSize THEN 2 * Len(hand) ELSE MinGridSize

C18_AttemptsStartPristine ==
    /\ pc = "ready" => HoldsLoadedWords(Lex) /\ removed_words = <<>>
    /\ (pc = "loop" /\ first_word_length > 1) =>
          \A s \in {AttemptStart} :
              /\ s.tiles = InputHand
              /\ s.max_grid_size = SideFor(InputHand)
              /\ DOMAIN s.grid = 0..(SideFor(InputHand) - 1)
              /\ \A row \in DOMAIN s.grid :
                    /\ DOMAIN s.grid[row] = 0..(SideFor(InputHand) - 1)
                    /\ \A col \in DOMAIN s.grid[row] : s.grid[row][col] = <<>>
              /\ s.lex.removed_words = <<>>
              /\ HoldsLoadedWords(s.lex)

\* a further pass is about to start after a pass that placed and removed a
\* word and used up part of the hand
C18_Witness ==
    /\ pc = "loop"
    /\ first_word_length > 1
    /\ removed_words # <<>>
    /\ tiles # original_hand
    /\ OccupiedCells # {}

(***************************************************************************)
(* C19: startSolver tries the first-word lengths in strictly descending    *)
(* order, from min(hand length, longest_word_length) down to 2, each at    *)
(* most once, makes no attempt after the first one that succeeds, and      *)
(* returns false only after every length of that range has been tried.     *)
(* A pass of the loop is a step taken at pc = "loop" with                  *)
(* first_word_length > 1.                                                  *)
(***************************************************************************)
\* the first length is min(hand length, longest_word_length)
StartsAtMin ==
    (pc = "ready" /\ pc' = "loop") =>
        /\ first_word_length' <= Len(tiles)
        /\ first_word_length' <= longest_word_length
        /\ first_word_length' \in {Len(tiles), longest_word_length}

\* from one pass to the next the length goes down by exactly one, and it
\* stays as it is while a pass is under way
DescendsByOne ==
    (InStartSolver /\ InStartSolver') =>
        first_word_length' =
            IF pc' = "loop" THEN first_word_length - 1 ELSE first_word_length

\* every length above 1 that is reached is tried
EveryLengthTried ==
    (pc = "loop" /\ first_word_length > 1) => pc' \in {"loop", "solver"}

\* the first pass that succeeds ends startSolver with true
StopsAtFirstSuccess ==
    (pc = "returned" /\ stack = <<>> /\ (retval \/ tiles = <<>>)) =>
        pc' = "done" /\ result'

\* startSolver returns false
ReturnsFailure == pc # "done" /\ pc' = "done" /\ ~result'

\* the loop has run through every length down to 2
LoopExhausted == pc = "loop" /\ first_word_length <= 1

\* C19 as stated: false is returned only once the loop has run through
C19_AllLengthsBeforeFailure ==
    [][/\ StartsAtMin
       /\ DescendsByOne
       /\ EveryLengthTried
       /\ StopsAtFirstSuccess
       /\ ReturnsFailure => LoopExhausted]_vars

\* C19 with the case of the hand of more than 144 letters: false is returned
\* once the loop has run through, or at once, before any pass, for a hand of
\* more than 144 letters
C19_DescendingLengths ==
    [][/\ StartsAtMin
       /\ DescendsByOne
       /\ EveryLengthTried
       /\ StopsAtFirstSuccess
       /\ ReturnsFailure =>
             \/ LoopExhausted
             \/ pc = "ready" /\ Len(tiles) > MaxTiles]_vars

\* false has been returned after passes for the lengths 3 and 2, one of
\* which placed a first word
C19_Witness ==
    /\ pc = "done"
    /\ ~result
    /\ first_word_length = 1
    /\ Len(original_hand) >= 3
    /\ longest_word_length >= 3
    /\ OccupiedCells # {}

(***************************************************************************)
(* C20: inside one pass of the loop of startSolver nothing is undone.      *)
(* From a step of solver() to the next every occupied cell keeps its       *)
(* letter, the hand only loses letters and, duplicates disallowed, the     *)
(* undo log only grows and the word list and the anagram groups only       *)
(* shrink, also when a nested solver() call has returned false.  Only the  *)
(* reset that opens the next pass restores the board.                      *)
(***************************************************************************)
InAttempt == pc \in {"solver", "returned"}

IsPrefix(s, u) == Len(s) <= Len(u) /\ SubSeq(u, 1, Len(s)) = s

C20_NothingUndoneInAttempt ==
    [][InAttempt =>
         /\ max_grid_size' = max_grid_size
         /\ \A row, col \in 0..(max_grid_size - 1) :
               grid[row][col] # <<>> => grid'[row][col] = grid[row][col]
         /\ \A c \in Range(tiles') : Count(tiles', c) <= Count(tiles, c)
         /\ ~accept_duplicates =>
               /\ IsPrefix(removed_words, removed_words')
               /\ Range(words') \subseteq Range(words)
               /\ \A k \in DOMAIN anagrams :
                     Range(anagrams'[k]) \subseteq Range(anagrams[k])]_vars

\* a nested solver() call has returned false to its caller with tiles left
\* in the hand, after two words were placed and removed
C20_Witness ==
    /\ pc = "returned"
    /\ stack # <<>>
    /\ ~retval
    /\ tiles # <<>>
    /\ ~accept_duplicates
    /\ Len(removed_words) > 1

(***************************************************************************)
(* C21: every nested solver() call is entered with a hand strictly smaller *)
(* than the hand its caller was entered with, so the number of nested      *)
(* calls inside the outermost solver() call never exceeds the size of the  *)
(* hand placeFirstWord left, which is at most 144.                         *)
(***************************************************************************)
C21_NestedCallsShrinkHand ==
    /\ \A d \in 2..Len(stack) : Len(stack[d].hand) < Len(stack[d - 1].hand)
    /\ stack # <<>> =>
          /\ Len(stack) - 1 <= Len(stack[1].hand)
          /\ Len(stack[1].hand) <= MaxTiles

\* as many nested calls as the hand placeFirstWord left has letters
C21_Witness ==
    /\ Len(stack) = 3
    /\ Len(stack[1].hand) = 2
    /\ stack[3].hand = tiles

(***************************************************************************)
(* C22: placeFirstWord(length) on the board reset for the hand, with       *)
(* 2 <= length <= hand length, returns true exactly when the word list     *)
(* holds a word of that length that the hand can build (the centred        *)
(* horizontal insertWord never fails).  On success the hand has lost       *)
(* exactly the letters of the placed word and the word has left the        *)
(* Lexicon; on failure grid, hand and Lexicon are unchanged.               *)
(***************************************************************************)
\* a pass of the loop of startSolver is about to call placeFirstWord
AtPlaceFirstWord == pc = "loop" /\ first_word_length > 1

\* word is a word of the wanted length that the hand of board s can build
FirstWordFor(s, word) ==
    /\ word \in Range(s.lex.words)
    /\ Len(word) = first_word_length
    /\ Buildable(word, s.tiles)

\* the grid g of side n holds word centred in row n / 2 and nothing else
HoldsCentred(g, n, word) ==
    \A row, col \in 0..(n - 1) :
        \E i \in {col - ((n \div 2) - (Len(word) \div 2)) + 1} :
            g[row][col] = IF row = n \div 2 /\ i \in 1..Len(word)
                          THEN <<word[i]>> ELSE <<>>

\* board p is board s with word placed and its letters taken from the hand
PlacedFirst(s, p, word) ==
    /\ HoldsCentred(p.grid, s.max_grid_size, word)
    /\ Len(p.tiles) = Len(s.tiles) - first_word_length
    /\ \A c \in Range(s.tiles) : Count(p.tiles, c) = Count(s.tiles, c) - Count(word, c)

\* word is in neither the word list nor its anagram group
Removed(lex, word) ==
    /\ word \notin Range(lex.words)
    /\ word \notin Range(lex.anagrams[Sort(word)])

\* success exactly when a word exists; nothing changes on failure
PlaceFirstOutcome(s, p) ==
    /\ 2 <= first_word_length /\ first_word_length <= Len(s.tiles)
    /\ p.ok <=> \E word \in Range(s.lex.words) : FirstWordFor(s, word)
    /\ ~p.ok => p.grid = s.grid /\ p.tiles = s.tiles /\ p.lex = s.lex

\* C22 as stated: the placed word has left the Lexicon
C22_PlaceFirstRemovesWord ==
    AtPlaceFirstWord =>
        \A s \in {AttemptStart} : \A p \in {FirstWordAttempt} :
            /\ PlaceFirstOutcome(s, p)
            /\ p.ok => \E word \in Range(s.lex.words) :
                          /\ FirstWordFor(s, word)
                          /\ PlacedFirst(s, p, word)
                          /\ Removed(p.lex, word)

\* C22 with the duplicates setting: the placed word has left the Lexicon and
\* stands in the undo log when duplicates are disallowed, and the Lexicon is
\* as it was when they are accepted
C22_PlaceFirstWord ==
    AtPlaceFirstWord =>
        \A s \in {AttemptStart} : \A p \in {FirstWordAttempt} :
            /\ PlaceFirstOutcome(s, p)
            /\ p.ok => \E word \in Range(s.lex.words) :
                          /\ FirstWordFor(s, word)
                          /\ PlacedFirst(s, p, word)
                          /\ IF accept_duplicates THEN p.lex = s.lex
                             ELSE /\ Removed(p.lex, word)
                                  /\ p.lex.removed_words = <<word>>

\* placeFirstWord is about to place a word, duplicates disallowed, in a pass
\* that follows a pass for a greater length
C22_Witness ==
    /\ AtPlaceFirstWord
    /\ ~accept_duplicates
    /\ first_word_length < FirstWordLength(original_hand, longest_word_length)
    /\ FirstWordAttempt.ok

(***************************************************************************)
(* C23: for every hand and every length getWordWithLength returns either   *)
(* a word the Lexicon holds at that moment, of that length, in which every *)
(* letter occurs at most as often as in the hand, or the empty string; it  *)
(* returns the empty string exactly when the Lexicon holds no such word.   *)
(* (The call leaves the Lexicon alone: the function reads anagrams through *)
(* const references and the operator has no Lexicon to give back.)         *)
(***************************************************************************)
\* the lengths asked for: none, one letter, up to one more than any hand
AskedLengths == 0..(MaxHandLen + 1)

\* word is held by the Lexicon, in the word list and in its anagram group
Held(word) ==
    /\ word \in Range(words)
    /\ Sort(word) \in DOMAIN anagrams
    /\ word \in Range(anagrams[Sort(word)])

C23_GetWordWithLength ==
    pc = "lexicon" =>
        \A hand \in HandInputs : \A length \in AskedLengths :
            \A word \in {getWordWithLength(anagrams, groupOrder, hand, length)} :
                /\ word # <<>> =>
                      /\ Held(word)
                      /\ Len(word) = length
                      /\ Buildable(word, hand)
                /\ word = <<>> <=>
                      ~ \E held \in Range(words) :
                            Len(held) = length /\ Buildable(held, hand)

\* after a removal the hand a,b gets no word of two letters any more, the
\* hand a,b,c still gets one of three
C23_Witness ==
    /\ pc = "lexicon"
    /\ removed_words # <<>>
    /\ getWordWithLength(BuildAnagrams(g_words), groupOrder, <<97, 98>>, 2) # <<>>
    /\ getWordWithLength(anagrams, groupOrder, <<97, 98>>, 2) = <<>>
    /\ getWordWithLength(anagrams, groupOrder, <<97, 98, 99>>, 3) # <<>>

(***************************************************************************)
(* C24: removeWordFromWordlist deletes exactly one entry, the first that   *)
(* matches, from the word list and from the word's anagram group, so that  *)
(* the other copies of a word the dictionary holds more than once remain.  *)
(***************************************************************************)
\* this step is removeWordFromWordlist(word), duplicates disallowed
RemovalOf(word) == removed_words' = Append(removed_words, word)

\* the step deletes `gone` entries equal to word from the list before and
\* leaves every other entry
Deletes(before, after, word, gone) ==
    /\ Count(after, word) = Count(before, word) - gone
    /\ Len(after) = Len(before) - gone
    /\ \A other \in Range(before) \ {word} : Count(after, other) = Count(before, other)

\* C24 as stated: one entry goes
C24_RemovesFirstEntryOnly ==
    [][\A word \in Range(words) :
         RemovalOf(word) =>
             /\ Deletes(words, words', word, 1)
             /\ Deletes(anagrams[Sort(word)], anagrams'[Sort(word)], word, 1)]_vars

\* C24 as the code has it: every entry equal to the word goes, from the word
\* list and from the anagram group, and the other groups stay as they are
C24_RemovesEveryEntry ==
    [][\A word \in Range(words) :
         RemovalOf(word) =>
             /\ Deletes(words, words', word, Count(words, word))
             /\ word \notin Range(words')
             /\ Deletes(anagrams[Sort(word)], anagrams'[Sort(word)], word,
                        Count(anagrams[Sort(word)], word))
             /\ word \notin Range(anagrams'[Sort(word)])
             /\ \A k \in DOMAIN anagrams \ {Sort(word)} : anagrams'[k] = anagrams[k]]_vars

\* a word the dictionary holds twice has been removed once, and no copy is
\* left
C24_Witness ==
    /\ pc = "lexicon"
    /\ \E word \in Range(g_words) :
          /\ Count(g_words, word) = 2
          /\ removed_words = <<word>>
          /\ Count(words, word) = 0

(***************************************************************************)
(* C25: whatever construction, removeWordFromWordlist, placeFirstWord,     *)
(* findSpotForWord and reset have done, the word list and the anagram      *)
(* index agree: a word occurs in the word list as often as in the anagram  *)
(* group keyed by its sorted letters, and every word of a group has the    *)
(* group's key as its sorted letters.                                      *)
(***************************************************************************)
GroupedWords == UNION {Range(anagrams[k]) : k \in DOMAIN anagrams}

C25_WordListAgreesWithAnagrams ==
    /\ \A word \in Range(words) \cup GroupedWords :
          /\ Sort(word) \in DOMAIN anagrams
          /\ Count(words, word) = Count(anagrams[Sort(word)], word)
    /\ \A k \in DOMAIN anagrams : \A word \in Range(anagrams[k]) : Sort(word) = k

\* a pass has removed a word, the reset of the next pass has restored it (it
\* stands further back in the word list) and placeFirstWord has removed a
\* word again
C25_Witness ==
    /\ pc = "solver"
    /\ first_word_length < FirstWordLength(original_hand, longest_word_length)
    /\ removed_words # <<>>
    /\ \E word \in Range(words) : Find(words, word) > Find(g_words, word)

(***************************************************************************)
(* C26: with duplicates disallowed and a dictionary without repeated       *)
(* entries no word is placed twice within one pass of startSolver: the     *)
(* undo log never holds a word twice, and a word in the undo log is in     *)
(* neither the word list nor its anagram group until the next reset.       *)
(***************************************************************************)
C26_NoWordPlacedTwice ==
    (~accept_duplicates /\ NoRepeats(g_words)) =>
        /\ NoRepeats(removed_words)
        /\ \A word \in Range(removed_words) : Removed(Lex, word)

\* three words have been placed in one pass
C26_Witness ==
    /\ ~accept_duplicates
    /\ NoRepeats(g_words)
    /\ InAttempt
    /\ Len(removed_words) = 3

(***************************************************************************)
(* C27: removeWordFromTiles(word), for any word and any hand, takes for    *)
(* each letter of the word, in order, one occurrence of that letter from   *)
(* the hand if the hand still holds one and skips the letter otherwise:    *)
(* the hand never gains a letter, and when the hand can build the word     *)
(* the hand left is the hand minus the letters of the word.                *)
(***************************************************************************)
\* the hand without, for each letter, its first occurrences, as many as the
\* word has of that letter: the letters at the indices that stay, in order
StayingIndices(hand, word) ==
    {i \in 1..Len(hand) : Count(SubSeq(hand, 1, i), hand[i]) > Count(word, hand[i])}

WithoutFirstOccurrences(hand, word) ==
    [j \in 1..Cardinality(StayingIndices(hand, word)) |->
        hand[CHOOSE i \in StayingIndices(hand, word) :
                 Cardinality({k \in StayingIndices(hand, word) : k < i}) = j - 1]]

C27_ConsumeTakesPresentLetters ==
    pc = "handSet" =>
        \A word \in ConsumeWords :
            \A left \in {removeWordFromTiles(tiles, word)} :
                /\ left = WithoutFirstOccurrences(tiles, word)
                /\ \A c \in Range(left) : Count(left, c) <= Count(tiles, c)
                /\ Buildable(word, tiles) =>
                      /\ Len(left) = Len(tiles) - Len(word)
                      /\ \A c \in Range(tiles) :
                            Count(left, c) = Count(tiles, c) - Count(word, c)

\* after a call: a word of which the hand holds one letter but not the
\* others takes that letter, and a word the hand can build takes all of its
\* letters
C27_Witness ==
    /\ pc = "handSet"
    /\ calls > 0
    /\ \E word \in ConsumeWords :
          /\ ~Buildable(word, tiles)
          /\ Len(removeWordFromTiles(tiles, word)) = Len(tiles) - 1
    /\ \E word \in ConsumeWords :
          /\ Len(word) = 3
          /\ Buildable(word, tiles)
          /\ Len(removeWordFromTiles(tiles, word)) = Len(tiles) - 3

====
